---------------------------- MODULE Spec2Model ----------------------------
(***************************************************************************)
(* Model of src/src/Mesh.js: the command queue of a Mesh renderable, the    *)
(* change notifications and assignments that append to it, and clean(),     *)
(* which replays the geometry's invalidations and drains the queue into the *)
(* dispatcher's command stream.                                             *)
(*                                                                          *)
(* The dispatcher and the Geometry objects are collaborators whose code is  *)
(* not part of the source; they are modelled at their interface: a dirty    *)
(* set, a command stream, and per geometry the parallel buffer arrays and   *)
(* the invalidations list.                                                  *)
(***************************************************************************)
EXTENDS Naturals, Sequences, FiniteSets

(***************************************************************************)
(* JavaScript values.  The queue and the command stream hold values of      *)
(* mixed types; every value is a record of one shape so that any two can be *)
(* compared.                                                                *)
(***************************************************************************)
Str(x) == [tag |-> "string", s |-> x, n |-> <<>>]
Num(i) == [tag |-> "number", s |-> "", n |-> <<i>>]
Arr(a) == [tag |-> "array", s |-> "", n |-> a]
Bool(b) == [tag |-> "boolean", s |-> IF b THEN "true" ELSE "false", n |-> <<>>]
Obj(x) == [tag |-> "object", s |-> x, n |-> <<>>]
Undef == [tag |-> "undefined", s |-> "", n |-> <<>>]

\* a[i] of a JavaScript array, i counted from 0: undefined out of range
At(a, i) == IF i + 1 \in DOMAIN a THEN a[i + 1] ELSE Undef

Reverse(seq) == [i \in 1..Len(seq) |-> seq[Len(seq) + 1 - i]]

(***************************************************************************)
(* Bounds of the model.                                                     *)
(***************************************************************************)
\* change and material tuples one mesh may have appended since its queue was
\* last drained
MaxPending == 2
\* tuples one mesh may have appended in the geometry specification
MaxAssign == 3
\* entries the invalidations lists may hold together
MaxInval == 2
\* clean() calls in one frame of the dispatcher
MaxCleans == 2
\* invocations of a _compile method in one behaviour
MaxCompiles == 2

(***************************************************************************)
(* The objects of the model.                                                *)
(***************************************************************************)
Meshes == {"m1", "m2"}
Geometries == {"G1", "G2"}
\* this._geometry = void 0
NoGeometry == "undefined"

\* dispatch.addRenderable(this)
MeshId(m) == IF m = "m1" THEN 1 ELSE 2
\* dispatch.getRenderPath()
RenderPath(m) == Str(IF m = "m1" THEN "body/1" ELSE "body/2")
\* dispatch.getContext()._transform and dispatch.getContext()._origin
ContextTransform == [matrix |-> Obj("M0")]
ContextOrigin == Obj("O0")

\* geometry.id, geometry.spec.type, geometry.spec.dynamic
GeometryId(g) == Num(IF g = "G1" THEN 1 ELSE 2)
GeometryType(g) == Str(IF g = "G1" THEN "TRIANGLES" ELSE "POINTS")
GeometryDynamic(g) == Bool(g = "G2")
\* geometry.spec.bufferNames, bufferValues, bufferSpacings: parallel arrays
bufferNames(g) ==
    IF g = "G1" THEN <<Str("pos"), Str("texCoord")>> ELSE <<Str("position")>>
bufferValues(g) ==
    IF g = "G1" THEN <<Arr(<<0, 1, 2>>), Arr(<<3, 4>>)>> ELSE <<Arr(<<5, 6, 7>>)>>
bufferSpacings(g) ==
    IF g = "G1" THEN <<Num(3), Num(2)>> ELSE <<Num(3)>>
BufferIndices(g) == {k \in 0..1 : k < Len(bufferNames(g))}

VARIABLES
    queue,          \* this.queue, per mesh
    size,           \* this._size, per mesh
    geometry,       \* this._geometry, per mesh
    baseColorField, \* this._baseColor, per mesh
    dirty,          \* the dispatcher's set of dirty renderables
    invalidations,  \* geometry.spec.invalidations, per geometry
    commands,       \* what sendDrawCommand has received in the current frame
    notified,       \* history: the _receive*Change calls since the last drain
    returned,       \* history: what the frame's clean() calls returned, in order
    lastClean,      \* history: the most recent clean() call of the frame
    compiles,       \* history: how many times a _compile method has been invoked
    drained         \* history: per mesh, whether a clean() has run to its end

vars == <<queue, size, geometry, baseColorField, dirty, invalidations,
          commands, notified, returned, lastClean, compiles, drained>>

\* no clean() call yet in this frame
NoClean == [mesh |-> "", ret |-> "", sent |-> <<>>, popped |-> <<>>,
            queue |-> <<>>, pending |-> <<>>, notified |-> <<>>,
            geometry |-> "", first |-> FALSE]

(***************************************************************************)
(* The constructor, Mesh(dispatch), with init().                            *)
(***************************************************************************)
Uniform(name, value) == <<Str("GL_UNIFORMS"), Str(name), value>>

\* mutant: init() replays the origin before the transform
MeshQueueOriginFirst ==
    <<Str("GL_CREATE_MESH")>> \o Uniform("origin", ContextOrigin)
                              \o Uniform("transform", ContextTransform.matrix)

\* this.queue after the constructor has run init()
MeshQueue ==
    <<Str("GL_CREATE_MESH")>> \o Uniform("transform", ContextTransform.matrix)
                              \o Uniform("origin", ContextOrigin)

\* the two handler calls init() makes
InitCalls ==
    <<[name |-> "transform", value |-> ContextTransform.matrix],
      [name |-> "origin", value |-> ContextOrigin]>>

Init ==
    /\ queue = [m \in Meshes |-> MeshQueue]
    /\ size = [m \in Meshes |-> <<>>]
    /\ geometry = [m \in Meshes |-> NoGeometry]
    /\ baseColorField = [m \in Meshes |-> Undef]
    /\ dirty = {MeshId(m) : m \in Meshes}
    /\ invalidations = [g \in Geometries |-> <<>>]
    /\ commands = <<>>
    /\ notified = [m \in Meshes |-> InitCalls]
    /\ returned = <<>>
    /\ lastClean = NoClean
    /\ compiles = 0
    /\ drained = [m \in Meshes |-> FALSE]

(***************************************************************************)
(* Inputs.                                                                  *)
(***************************************************************************)
Transforms == {[matrix |-> Obj("M1")]}
SizeProviders == {[topDownSize |-> Arr(<<1, 2, 3>>)], [topDownSize |-> Arr(<<4, 5, 6>>)]}
Origins == {Obj("O1")}
Opacities == {Num(1)}

\* material expressions: a vec3, a number, a texture object, and two
\* expressions that carry a _compile method
Compilable == {Obj("exprToObject"), Obj("exprToNumber")}
MaterialInputs == {Arr(<<1, 0, 0>>), Num(5), Obj("image")} \cup Compilable

\* materialExpression._compile()
compile(x) == IF x = Obj("exprToNumber") THEN Num(7) ELSE Obj("compiled")
\* if (materialExpression._compile) materialExpression = materialExpression._compile()
Compiled(x) == IF x \in Compilable THEN compile(x) ELSE x

\* mutant: the test of the condition is itself an invocation,
\* if (materialExpression._compile()) materialExpression = materialExpression._compile()
CompileCallsTwice(x) == IF x \in Compilable THEN 2 ELSE 0

\* how many times one assignment of x invokes x._compile
CompileCalls(x) == IF x \in Compilable THEN 1 ELSE 0

(***************************************************************************)
(* Guards that bound the model, and the frame discipline: changes arrive    *)
(* between frames, when the dispatcher has forwarded the frame's commands.  *)
(***************************************************************************)
Opcodes == {"GL_CREATE_MESH", "GL_UNIFORMS", "GL_SET_GEOMETRY",
            "MATERIAL_INPUT", "UNIFORM_INPUT"}
IsOpcode(v) == v.tag = "string" /\ v.s \in Opcodes

\* tuples appended to m's queue since the constructor or the last drain
Appended(m) ==
    Len(SelectSeq(queue[m], IsOpcode))
        - (IF queue[m] # <<>> /\ Head(queue[m]) = Str("GL_CREATE_MESH") THEN 3 ELSE 0)

Idle == commands = <<>>
CanAppend(m) == Idle /\ Appended(m) < MaxPending
CanAssign(m) == Idle /\ Appended(m) < MaxAssign
CanCompile(x) == compiles + CompileCalls(x) <= MaxCompiles

(***************************************************************************)
(* The change handlers.                                                     *)
(***************************************************************************)
Notify(m, name, value) ==
    notified' = [notified EXCEPT ![m] = Append(@, [name |-> name, value |-> value])]

receiveTransformChange(m, transform) ==
    /\ dirty' = dirty \cup {MeshId(m)}
    /\ queue' = [queue EXCEPT ![m] = @ \o Uniform("transform", transform.matrix)]
    /\ Notify(m, "transform", transform.matrix)
    /\ UNCHANGED <<size, geometry, baseColorField, invalidations, commands,
                   returned, lastClean,
                   compiles, drained>>

\* mutant: the third component is not copied
receiveSizeChangeShort(m, provider) ==
    LET sz == provider.topDownSize
    IN  /\ dirty' = dirty \cup {MeshId(m)}
        /\ size' = [size EXCEPT ![m] =
                       [i \in DOMAIN @ \cup 1..2 |-> IF i \in 1..2 THEN sz.n[i] ELSE @[i]]]
        /\ queue' = [queue EXCEPT ![m] = @ \o Uniform("size", sz)]
        /\ Notify(m, "size", sz)
        /\ UNCHANGED <<geometry, baseColorField, invalidations, commands,
                       returned, lastClean, compiles, drained>>

receiveSizeChange(m, provider) ==
    LET sz == provider.topDownSize
    IN  /\ dirty' = dirty \cup {MeshId(m)}
        /\ size' = [size EXCEPT ![m] =
                       [i \in DOMAIN @ \cup 1..3 |-> IF i \in 1..3 THEN sz.n[i] ELSE @[i]]]
        /\ queue' = [queue EXCEPT ![m] = @ \o Uniform("size", sz)]
        /\ Notify(m, "size", sz)
        /\ UNCHANGED <<geometry, baseColorField, invalidations, commands,
                       returned, lastClean,
                       compiles, drained>>

receiveOriginChange(m, origin) ==
    /\ dirty' = dirty \cup {MeshId(m)}
    /\ queue' = [queue EXCEPT ![m] = @ \o Uniform("origin", origin)]
    /\ Notify(m, "origin", origin)
    /\ UNCHANGED <<size, geometry, baseColorField, invalidations, commands,
                   returned, lastClean,
                   compiles, drained>>

receiveOpacityChange(m, opacity) ==
    /\ dirty' = dirty \cup {MeshId(m)}
    /\ queue' = [queue EXCEPT ![m] = @ \o Uniform("opacity", opacity)]
    /\ Notify(m, "opacity", opacity)
    /\ UNCHANGED <<size, geometry, baseColorField, invalidations, commands,
                   returned, lastClean,
                   compiles, drained>>

\* getSize(): the cached size; reads only
getSize(m) == size[m]

(***************************************************************************)
(* setGeometry.                                                             *)
(***************************************************************************)
SetGeometryTuple(g) ==
    <<Str("GL_SET_GEOMETRY"), GeometryId(g), GeometryType(g), GeometryDynamic(g)>>

\* mutant: the tuple is pushed without comparing with the geometry held
setGeometryQueueAlways(q, held, g) == q \o SetGeometryTuple(g)

\* the queue after setGeometry(g) on a mesh that holds `held`
setGeometryQueue(q, held, g) == IF held # g THEN q \o SetGeometryTuple(g) ELSE q

\* mutant: the tuple is pushed but the reference is not stored
setGeometryNoAdopt(m, g) ==
    /\ queue' = [queue EXCEPT ![m] = setGeometryQueue(@, geometry[m], g)]
    /\ UNCHANGED <<size, geometry, baseColorField, dirty, invalidations,
                   commands, notified, returned, lastClean,
                   compiles, drained>>

setGeometry(m, g) ==
    /\ queue' = [queue EXCEPT ![m] = setGeometryQueue(@, geometry[m], g)]
    /\ geometry' = [geometry EXCEPT ![m] = g]
    /\ UNCHANGED <<size, baseColorField, dirty, invalidations, commands,
                   notified, returned, lastClean,
                   compiles, drained>>

(***************************************************************************)
(* The material slots.                                                      *)
(***************************************************************************)
\* mutant: baseColor classifies as the other three slots do
baseColorTupleByNumber(e) ==
    <<Str(IF e.tag = "number" THEN "UNIFORM_INPUT" ELSE "MATERIAL_INPUT"),
      Str("baseColor"), e>>

\* what baseColor pushes for the (compiled) expression e
baseColorTuple(e) ==
    <<Str(IF e.tag = "array" THEN "GL_UNIFORMS" ELSE "MATERIAL_INPUT"),
      Str("baseColor"), e>>

\* mutant: the slot name is not pushed
normalTupleNoName(e) ==
    <<Str(IF e.tag = "number" THEN "UNIFORM_INPUT" ELSE "MATERIAL_INPUT"), e>>

normalTuple(e) ==
    <<Str(IF e.tag = "number" THEN "UNIFORM_INPUT" ELSE "MATERIAL_INPUT"),
      Str("normal"), e>>

glossinessTuple(e) ==
    <<Str(IF e.tag = "number" THEN "UNIFORM_INPUT" ELSE "MATERIAL_INPUT"),
      Str("glossiness"), e>>

metallicTuple(e) ==
    <<Str(IF e.tag = "number" THEN "UNIFORM_INPUT" ELSE "MATERIAL_INPUT"),
      Str("metallic"), e>>

\* mutant: the expression is cached whatever its shape
baseColorCacheAll(m, materialExpression) ==
    LET e == Compiled(materialExpression)
    IN  /\ dirty' = dirty \cup {MeshId(m)}
        /\ baseColorField' = [baseColorField EXCEPT ![m] = e]
        /\ queue' = [queue EXCEPT ![m] = @ \o baseColorTuple(e)]
        /\ compiles' = compiles + CompileCalls(materialExpression)
        /\ UNCHANGED <<size, geometry, invalidations, commands, notified,
                       returned, lastClean, drained>>

baseColor(m, materialExpression) ==
    LET e == Compiled(materialExpression)
    IN  /\ dirty' = dirty \cup {MeshId(m)}
        /\ baseColorField' = [baseColorField EXCEPT ![m] =
                                 IF e.tag = "array" THEN @ ELSE e]
        /\ queue' = [queue EXCEPT ![m] = @ \o baseColorTuple(e)]
        /\ compiles' = compiles + CompileCalls(materialExpression)
        /\ UNCHANGED <<size, geometry, invalidations, commands, notified,
                       returned, lastClean, drained>>

\* mutant: normal marks the mesh dirty as baseColor does
normalDirty(m, materialExpression) ==
    LET e == Compiled(materialExpression)
    IN  /\ dirty' = dirty \cup {MeshId(m)}
        /\ queue' = [queue EXCEPT ![m] = @ \o normalTuple(e)]
        /\ compiles' = compiles + CompileCalls(materialExpression)
        /\ UNCHANGED <<size, geometry, baseColorField, invalidations,
                       commands, notified, returned, lastClean, drained>>

normal(m, materialExpression) ==
    LET e == Compiled(materialExpression)
    IN  /\ queue' = [queue EXCEPT ![m] = @ \o normalTuple(e)]
        /\ compiles' = compiles + CompileCalls(materialExpression)
        /\ UNCHANGED <<size, geometry, baseColorField, dirty, invalidations,
                       commands, notified, returned, lastClean, drained>>

glossiness(m, materialExpression) ==
    LET e == Compiled(materialExpression)
    IN  /\ queue' = [queue EXCEPT ![m] = @ \o glossinessTuple(e)]
        /\ compiles' = compiles + CompileCalls(materialExpression)
        /\ UNCHANGED <<size, geometry, baseColorField, dirty, invalidations,
                       commands, notified, returned, lastClean, drained>>

metallic(m, materialExpression) ==
    LET e == Compiled(materialExpression)
    IN  /\ queue' = [queue EXCEPT ![m] = @ \o metallicTuple(e)]
        /\ compiles' = compiles + CompileCalls(materialExpression)
        /\ UNCHANGED <<size, geometry, baseColorField, dirty, invalidations,
                       commands, notified, returned, lastClean, drained>>

(***************************************************************************)
(* clean.                                                                   *)
(***************************************************************************)
\* sendDrawCommand('WITH').sendDrawCommand(path)
Header(m) == <<Str("WITH"), RenderPath(m)>>

\* One GL_BUFFER_DATA group, sent in the iteration whose counter is i.
BufferData(g, i) ==
    <<Str("GL_BUFFER_DATA"), GeometryId(g), At(bufferNames(g), i),
      At(bufferValues(g), i), At(bufferSpacings(g), i)>>

\* mutant: the entries are taken from the front, shift() for pop()
RECURSIVE ReplayInvalidationsShift(_, _, _, _, _)
ReplayInvalidationsShift(g, inv, i, sent, popped) ==
    IF i = 0 THEN [inv |-> inv, sent |-> sent, popped |-> popped]
    ELSE ReplayInvalidationsShift(g, Tail(inv), i - 1,
                                  sent \o BufferData(g, i - 1),
                                  Append(popped, Head(inv)))

\* mutant: the entries are read and left in the list
RECURSIVE ReplayInvalidationsKeep(_, _, _, _, _)
ReplayInvalidationsKeep(g, inv, i, sent, popped) ==
    IF i = 0 THEN [inv |-> inv, sent |-> sent, popped |-> popped]
    ELSE [inv |-> inv,
          sent |-> ReplayInvalidationsKeep(g, SubSeq(inv, 1, Len(inv) - 1), i - 1,
                                           sent \o BufferData(g, i - 1), popped).sent,
          popped |-> Reverse(inv)]

\* mutant: the loop stops one entry short, while (--i) for while (i--)
RECURSIVE ReplayInvalidationsShort(_, _, _, _, _)
ReplayInvalidationsShort(g, inv, i, sent, popped) ==
    IF i <= 1 THEN [inv |-> inv, sent |-> sent, popped |-> popped]
    ELSE ReplayInvalidationsShort(g, SubSeq(inv, 1, Len(inv) - 1), i - 1,
                                  sent \o BufferData(g, i - 1),
                                  Append(popped, inv[Len(inv)]))

\* i = invalidations.length; while (i--) { bufferIndex = invalidations.pop(); ... }
\* run from counter value i, with `inv` left in the list, `sent` sent so far and
\* `popped` the values bufferIndex has taken
RECURSIVE ReplayInvalidations(_, _, _, _, _)
ReplayInvalidations(g, inv, i, sent, popped) ==
    IF i = 0 THEN [inv |-> inv, sent |-> sent, popped |-> popped]
    ELSE ReplayInvalidations(g, SubSeq(inv, 1, Len(inv) - 1), i - 1,
                             sent \o BufferData(g, i - 1),
                             Append(popped, inv[Len(inv)]))

\* mutant: the queue is drained from its end, queue.pop() for queue.shift()
RECURSIVE DrainQueuePop(_, _, _)
DrainQueuePop(q, i, sent) ==
    IF i = 0 THEN [queue |-> q, sent |-> sent]
    ELSE DrainQueuePop(SubSeq(q, 1, Len(q) - 1), i - 1, Append(sent, q[Len(q)]))

\* mutant: the loop stops one element short, while (--i) for while (i--)
RECURSIVE DrainQueueShort(_, _, _)
DrainQueueShort(q, i, sent) ==
    IF i <= 1 THEN [queue |-> q, sent |-> sent]
    ELSE DrainQueueShort(Tail(q), i - 1, Append(sent, Head(q)))

\* i = queue.length; while (i--) sendDrawCommand(queue.shift())
RECURSIVE DrainQueue(_, _, _)
DrainQueue(q, i, sent) ==
    IF i = 0 THEN [queue |-> q, sent |-> sent]
    ELSE DrainQueue(Tail(q), i - 1, Append(sent, Head(q)))

\* mutant: the queue is drained before the invalidations are replayed
CleanOutcomeQueueFirst(m) ==
    LET g == geometry[m]
    IN  IF g = NoGeometry
        THEN [sent |-> Header(m), queue |-> queue[m], inv |-> <<>>,
              popped |-> <<>>, ret |-> "TypeError"]
        ELSE LET d == DrainQueue(queue[m], Len(queue[m]), Header(m))
                 r == ReplayInvalidations(g, invalidations[g],
                                          Len(invalidations[g]), d.sent, <<>>)
             IN  [sent |-> r.sent, queue |-> d.queue, inv |-> r.inv,
                  popped |-> r.popped,
                  ret |-> IF Len(d.queue) = 0 THEN "true" ELSE "false"]

\* The outcome of clean() on mesh m: what it sent, what it left, what it returned.
\* Without a geometry, reading this._geometry.spec throws a TypeError after the
\* header has been sent.
CleanOutcome(m) ==
    LET g == geometry[m]
    IN  IF g = NoGeometry
        THEN [sent |-> Header(m), queue |-> queue[m], inv |-> <<>>,
              popped |-> <<>>, ret |-> "TypeError"]
        ELSE LET r == ReplayInvalidations(g, invalidations[g],
                                          Len(invalidations[g]), Header(m), <<>>)
                 d == DrainQueue(queue[m], Len(queue[m]), r.sent)
             IN  [sent |-> d.sent, queue |-> d.queue, inv |-> r.inv,
                  popped |-> r.popped,
                  ret |-> IF Len(d.queue) = 0 THEN "true" ELSE "false"]

IsWith(v) == v = Str("WITH")
CleansInFrame == Len(SelectSeq(commands, IsWith))

\* clean() of mesh m; `clears` says whether the caller is the dispatcher's
\* frame, which takes a true result as the signal to clear m's dirty flag
CleanCall(m, clears) ==
    LET o == CleanOutcome(m)
        g == geometry[m]
    IN  /\ CleansInFrame < MaxCleans
        /\ commands' = commands \o o.sent
        /\ queue' = [queue EXCEPT ![m] = o.queue]
        /\ invalidations' = IF g = NoGeometry THEN invalidations
                            ELSE [invalidations EXCEPT ![g] = o.inv]
        /\ notified' = IF o.ret = "TypeError" THEN notified
                       ELSE [notified EXCEPT ![m] = <<>>]
        /\ returned' = Append(returned,
               [mesh |-> m, ret |-> o.ret, geometry |-> g,
                pending |-> IF g = NoGeometry THEN <<>> ELSE invalidations[g]])
        /\ lastClean' = [mesh |-> m, ret |-> o.ret, sent |-> o.sent,
                         popped |-> o.popped, queue |-> queue[m],
                         pending |-> IF g = NoGeometry THEN <<>> ELSE invalidations[g],
                         notified |-> notified[m], geometry |-> g,
                         first |-> ~drained[m]]
        /\ dirty' = IF clears /\ o.ret = "true" THEN dirty \ {MeshId(m)} ELSE dirty
        /\ drained' = IF o.ret = "TypeError" THEN drained
                      ELSE [drained EXCEPT ![m] = TRUE]
        /\ UNCHANGED <<size, geometry, baseColorField, compiles>>

\* a direct call of mesh.clean()
clean(m) == CleanCall(m, FALSE)

(***************************************************************************)
(* The collaborators.                                                       *)
(***************************************************************************)
\* the dispatcher's frame asks a dirty renderable to clean itself
DispatchClean(m) ==
    /\ MeshId(m) \in dirty
    /\ CleanCall(m, TRUE)

\* the dispatcher forwards the frame's commands
Flush ==
    /\ commands # <<>>
    /\ commands' = <<>>
    /\ returned' = <<>>
    /\ lastClean' = NoClean
    /\ UNCHANGED <<queue, size, geometry, baseColorField, dirty, invalidations,
                   notified, compiles, drained>>

RECURSIVE SumLen(_, _)
SumLen(f, S) ==
    IF S = {} THEN 0
    ELSE LET x == CHOOSE y \in S : TRUE IN Len(f[x]) + SumLen(f, S \ {x})

\* a buffer of geometry g changes: its index joins the invalidations
Invalidate(g, k) ==
    /\ Idle
    /\ SumLen(invalidations, Geometries) < MaxInval
    /\ invalidations' = [invalidations EXCEPT ![g] = Append(@, k)]
    /\ UNCHANGED <<queue, size, geometry, baseColorField, dirty, commands,
                   notified, returned, lastClean,
                   compiles, drained>>

(***************************************************************************)
(* The specifications.                                                      *)
(***************************************************************************)
\* the mesh the single-mesh specifications drive
Active == {"m1"}

Next ==
    \/ \E m \in Active, t \in Transforms :
          CanAppend(m) /\ receiveTransformChange(m, t)
    \/ \E m \in Active, s \in SizeProviders :
          CanAppend(m) /\ receiveSizeChange(m, s)
    \/ \E m \in Active, o \in Origins :
          CanAppend(m) /\ receiveOriginChange(m, o)
    \/ \E m \in Active, o \in Opacities :
          CanAppend(m) /\ receiveOpacityChange(m, o)
    \/ \E m \in Active, g \in Geometries :
          CanAppend(m) /\ setGeometry(m, g)
    \/ \E m \in Active : CanAppend(m) /\ baseColor(m, Arr(<<1, 0, 0>>))
    \/ \E m \in Active : CanAppend(m) /\ normal(m, Num(5))
    \/ \E m \in Active : CanAppend(m) /\ glossiness(m, Num(5))
    \/ \E m \in Active : CanAppend(m) /\ metallic(m, Num(5))
    \/ \E m \in Active : clean(m)
    \/ \E m \in Active : DispatchClean(m)
    \/ \E g \in Geometries : \E k \in BufferIndices(g) : Invalidate(g, k)
    \/ Flush

Spec == Init /\ [][Next]_vars

\* The frame is the dispatcher's own loop: a dirty renderable is cleaned, and the
\* frame's commands are forwarded.  Nothing obliges the application to call
\* anything.
FairSpec ==
    /\ Spec
    /\ \A m \in Active : WF_vars(DispatchClean(m))
    /\ WF_vars(Flush)

\* Geometry assignment: longer runs of setGeometry calls between drains.
NextGeometry ==
    \/ \E m \in Active, g \in Geometries :
          CanAssign(m) /\ setGeometry(m, g)
    \/ \E m \in Active, t \in Transforms :
          CanAssign(m) /\ receiveTransformChange(m, t)
    \/ \E m \in Active : clean(m)
    \/ \E m \in Active : DispatchClean(m)
    \/ Flush

SpecGeometry == Init /\ [][NextGeometry]_vars

\* Material assignment: every slot with every shape of expression.
NextMaterial ==
    \/ \E m \in Active, x \in MaterialInputs :
          CanAppend(m) /\ CanCompile(x) /\ baseColor(m, x)
    \/ \E m \in Active, x \in MaterialInputs :
          CanAppend(m) /\ CanCompile(x) /\ normal(m, x)
    \/ \E m \in Active, x \in MaterialInputs :
          CanAppend(m) /\ CanCompile(x) /\ glossiness(m, x)
    \/ \E m \in Active, x \in MaterialInputs :
          CanAppend(m) /\ CanCompile(x) /\ metallic(m, x)
    \/ \E m \in Active : Idle /\ geometry[m] = NoGeometry /\ setGeometry(m, "G1")
    \/ \E m \in Active : clean(m)
    \/ \E m \in Active : DispatchClean(m)
    \/ Flush

SpecMaterial == Init /\ [][NextMaterial]_vars

\* Shared geometry: two meshes, each of which may hold either geometry, drained
\* in either order within a frame.
NextShared ==
    \/ \E m \in Meshes, g \in Geometries :
          CanAppend(m) /\ setGeometry(m, g)
    \/ \E m \in Meshes : clean(m)
    \/ \E m \in Meshes : DispatchClean(m)
    \/ \E g \in Geometries : \E k \in BufferIndices(g) : Invalidate(g, k)
    \/ Flush

SpecShared == Init /\ [][NextShared]_vars

(***************************************************************************)
(* Reading a flat queue or stream back into tuples.                         *)
(***************************************************************************)
Arity(v) ==
    IF v = Str("GL_SET_GEOMETRY") THEN 4
    ELSE IF v \in {Str("GL_UNIFORMS"), Str("MATERIAL_INPUT"), Str("UNIFORM_INPUT")} THEN 3
    ELSE 1

RECURSIVE Tuples(_)
Tuples(q) ==
    IF q = <<>> THEN <<>>
    ELSE LET a == IF Arity(Head(q)) <= Len(q) THEN Arity(Head(q)) ELSE Len(q)
         IN  <<SubSeq(q, 1, a)>> \o Tuples(SubSeq(q, a + 1, Len(q)))

RECURSIVE Flatten(_)
Flatten(ts) == IF ts = <<>> THEN <<>> ELSE Head(ts) \o Flatten(Tail(ts))

ChangeNames == {Str("transform"), Str("size"), Str("origin"), Str("opacity")}
IsChangeTuple(t) == Len(t) = 3 /\ t[1] = Str("GL_UNIFORMS") /\ t[2] \in ChangeNames
ChangeTuple(c) == <<Str("GL_UNIFORMS"), Str(c.name), c.value>>

\* a clean() call of this frame that ran to its end
Cleaned == lastClean.mesh # "" /\ lastClean.ret # "TypeError"
\* the part of what the last clean() sent that follows the header and the
\* n GL_BUFFER_DATA groups
AfterUploads(n) == SubSeq(lastClean.sent, 2 + 5 * n + 1, Len(lastClean.sent))
\* the j-th GL_BUFFER_DATA group the last clean() sent, j from 1
Upload(j) == SubSeq(lastClean.sent, 2 + 5 * (j - 1) + 1, 2 + 5 * j)
IsBufferData(v) == v = Str("GL_BUFFER_DATA")

(***************************************************************************)
(* C1.  Change notifications on a mesh with a geometry, then one clean():   *)
(* the call sends exactly one header (WITH, path) first, then one           *)
(* GL_BUFFER_DATA group per pending invalidation, then the queue; the       *)
(* change tuples it sends are, one per notification and in the order of     *)
(* the notifications, those of the handler calls since the last drain.      *)
(***************************************************************************)
C1_NotificationOrder ==
    Cleaned =>
        LET n == Len(lastClean.pending)
            rest == AfterUploads(n)
        IN  /\ Len(lastClean.sent) >= 2 + 5 * n
            /\ SubSeq(lastClean.sent, 1, 2) = <<Str("WITH"), RenderPath(lastClean.mesh)>>
            /\ Len(SelectSeq(lastClean.sent, IsWith)) = 1
            /\ \A j \in 1..n : Upload(j)[1] = Str("GL_BUFFER_DATA")
            /\ Len(SelectSeq(lastClean.sent, IsBufferData)) = n
            /\ rest = lastClean.queue
            /\ Flatten(SelectSeq(Tuples(rest), IsChangeTuple))
                   = Flatten([i \in 1..Len(lastClean.notified) |->
                                 ChangeTuple(lastClean.notified[i])])

\* two size notifications, then a clean() with an invalidation pending
C1_Witness ==
    /\ Cleaned
    /\ lastClean.pending # <<>>
    /\ Len(lastClean.notified) = 2
    /\ lastClean.notified[1].name = "size"
    /\ lastClean.notified[2].name = "size"
    /\ lastClean.notified[1].value # lastClean.notified[2].value

(***************************************************************************)
(* C2.  clean() on a mesh that never got a geometry fails having sent       *)
(* nothing, not even the header, and leaves the queue as it was.            *)
(***************************************************************************)
C2_NoPartialOutput ==
    (lastClean.mesh # "" /\ lastClean.geometry = NoGeometry) =>
        /\ lastClean.ret = "TypeError"
        /\ lastClean.sent = <<>>
        /\ queue[lastClean.mesh] = lastClean.queue

(***************************************************************************)
(* C3.  The GL_BUFFER_DATA group sent for a pending invalidation that holds *)
(* buffer index k carries the geometry's id and the name, value and spacing *)
(* of buffer k.                                                             *)
(***************************************************************************)
C3_UploadOfInvalidatedBuffer ==
    Cleaned =>
        \A j \in 1..Len(lastClean.popped) :
            LET g == lastClean.geometry
                k == lastClean.popped[j]
            IN  Upload(j) = <<Str("GL_BUFFER_DATA"), GeometryId(g), At(bufferNames(g), k),
                              At(bufferValues(g), k), At(bufferSpacings(g), k)>>

(***************************************************************************)
(* C4.  A queue never holds two pending GL_SET_GEOMETRY tuples with the id  *)
(* of the same geometry.                                                    *)
(***************************************************************************)
IsSetGeometryTuple(t) == t[1] = Str("GL_SET_GEOMETRY")
\* the geometry ids of the pending GL_SET_GEOMETRY tuples of m, in queue order
PendingGeometryIds(m) ==
    LET ts == SelectSeq(Tuples(queue[m]), IsSetGeometryTuple)
    IN  [i \in 1..Len(ts) |-> At(ts[i], 1)]

C4_AtMostOnePendingPerGeometry ==
    \A m \in Meshes, g \in Geometries :
        LET ids == PendingGeometryIds(m)
        IN  Cardinality({i \in 1..Len(ids) : ids[i] = GeometryId(g)}) <= 1

(***************************************************************************)
(* C4, amended.  No two successive pending GL_SET_GEOMETRY tuples of a      *)
(* queue carry the id of the same geometry, and the last of them carries    *)
(* the id of the geometry the mesh holds: a geometry is pending twice only  *)
(* with another geometry assigned in between (G1, G2, G1).                  *)
(***************************************************************************)
C4_NoTwoSuccessivePending ==
    \A m \in Meshes :
        LET ids == PendingGeometryIds(m)
        IN  /\ \A i \in 1..Len(ids) : i < Len(ids) => ids[i] # ids[i + 1]
            /\ ids # <<>> =>
                   /\ geometry[m] # NoGeometry
                   /\ ids[Len(ids)] = GeometryId(geometry[m])

\* G1, G2 and G1 again are pending together
C4_Witness ==
    PendingGeometryIds("m1") = <<GeometryId("G1"), GeometryId("G2"), GeometryId("G1")>>

(***************************************************************************)
(* C5.  Every accepted change is eventually drained: on a mesh that holds a *)
(* geometry, a queue that is not empty is eventually emptied by the         *)
(* dispatcher's frames, which clean the dirty renderables only.             *)
(***************************************************************************)
C5_EveryChangeDrained ==
    \A m \in Active :
        (geometry[m] # NoGeometry /\ queue[m] # <<>>) ~> (queue[m] = <<>>)

(***************************************************************************)
(* C6.  Scenario A: a new mesh, setGeometry(G) with G's one buffer          *)
(* "position" pending, one clean().  As claimed, the call sends the header, *)
(* GL_SET_GEOMETRY, GL_BUFFER_DATA, GL_CREATE_MESH, the transform and the   *)
(* origin, in this order.                                                   *)
(***************************************************************************)
\* the last clean() is the one of scenario A, on mesh m1
ScenarioA ==
    /\ lastClean.mesh = "m1"
    /\ lastClean.geometry = "G2"
    /\ lastClean.pending = <<0>>
    /\ lastClean.queue =
           <<Str("GL_CREATE_MESH"),
             Str("GL_UNIFORMS"), Str("transform"), Obj("M0"),
             Str("GL_UNIFORMS"), Str("origin"), Obj("O0"),
             Str("GL_SET_GEOMETRY"), Num(2), Str("POINTS"), Bool(TRUE)>>

C6_ScenarioAAsClaimed ==
    ScenarioA =>
        /\ lastClean.sent =
               <<Str("WITH"), Str("body/1"),
                 Str("GL_SET_GEOMETRY"), Num(2), Str("POINTS"), Bool(TRUE),
                 Str("GL_BUFFER_DATA"), Num(2), Str("position"), Arr(<<5, 6, 7>>), Num(3),
                 Str("GL_CREATE_MESH"),
                 Str("GL_UNIFORMS"), Str("transform"), Obj("M0"),
                 Str("GL_UNIFORMS"), Str("origin"), Obj("O0")>>
        /\ queue["m1"] = <<>>

(***************************************************************************)
(* C6, amended.  Scenario A sends the header, then GL_BUFFER_DATA for       *)
(* "position", then the queue in the order it was filled: GL_CREATE_MESH,   *)
(* the transform, the origin and, last, GL_SET_GEOMETRY; the queue is empty *)
(* afterwards.                                                              *)
(***************************************************************************)
C6_ScenarioAInQueueOrder ==
    ScenarioA =>
        /\ lastClean.sent =
               <<Str("WITH"), Str("body/1"),
                 Str("GL_BUFFER_DATA"), Num(2), Str("position"), Arr(<<5, 6, 7>>), Num(3),
                 Str("GL_CREATE_MESH"),
                 Str("GL_UNIFORMS"), Str("transform"), Obj("M0"),
                 Str("GL_UNIFORMS"), Str("origin"), Obj("O0"),
                 Str("GL_SET_GEOMETRY"), Num(2), Str("POINTS"), Bool(TRUE)>>
        /\ queue["m1"] = <<>>

C6_Witness == ScenarioA /\ lastClean.ret = "true" /\ Len(lastClean.sent) = 18

(***************************************************************************)
(* C7.  In each of the four material slots the tuple's opcode follows from  *)
(* the shape of the (compiled) value alone: GL_UNIFORMS for an array,       *)
(* UNIFORM_INPUT for a number, MATERIAL_INPUT for anything else.            *)
(***************************************************************************)
SlotNames == {Str("baseColor"), Str("normal"), Str("glossiness"), Str("metallic")}
IsSlotTuple(t) == Len(t) = 3 /\ t[2] \in SlotNames
ShapeOpcode(v) ==
    Str(IF v.tag = "array" THEN "GL_UNIFORMS"
        ELSE IF v.tag = "number" THEN "UNIFORM_INPUT" ELSE "MATERIAL_INPUT")

SlotOpcode(slot, v) ==
    IF slot = "baseColor"
    THEN IF v.tag = "array" THEN "GL_UNIFORMS" ELSE "MATERIAL_INPUT"
    ELSE IF v.tag = "number" THEN "UNIFORM_INPUT" ELSE "MATERIAL_INPUT"

Appends(m, slot, x) ==
    LET v == IF x \in Compilable
             THEN (IF x = Obj("exprToNumber") THEN Num(7) ELSE Obj("compiled"))
             ELSE x
    IN  queue'[m] = queue[m] \o <<Str(SlotOpcode(slot, v)), Str(slot), v>>

C8_LastAddedFirstOnce ==
    Cleaned =>
        /\ lastClean.popped = Reverse(lastClean.pending)
        /\ Len(SelectSeq(lastClean.sent, IsBufferData)) = Len(lastClean.pending)
        /\ invalidations[lastClean.geometry] = <<>>

\* two different entries were pending and were taken last first
C8_Witness ==
    /\ Cleaned
    /\ lastClean.pending = <<0, 1>>
    /\ lastClean.popped = <<1, 0>>
    /\ Len(lastClean.sent) >= 12

(***************************************************************************)
(* C9.  Two clean() calls in a row on a mesh with a geometry, with no       *)
(* change or invalidation between them: both return true, and the second    *)
(* sends the header (WITH, path) and nothing else.                          *)
(***************************************************************************)
\* the frame's last two clean() calls were on the same mesh, which holds a geometry
TwoInARow ==
    /\ Len(returned) >= 2
    /\ returned[Len(returned) - 1].mesh = returned[Len(returned)].mesh
    /\ lastClean.geometry # NoGeometry

C9_SecondCleanSendsHeaderOnly ==
    TwoInARow =>
        /\ returned[Len(returned) - 1].ret = "true"
        /\ returned[Len(returned)].ret = "true"
        /\ lastClean.sent = <<Str("WITH"), RenderPath(lastClean.mesh)>>

\* the first of the two calls had uploads and a queue to send
C9_Witness ==
    /\ TwoInARow
    /\ Len(returned) = 2
    /\ Len(commands) > 2 + 5 + 2
    /\ \E i \in 1..Len(commands) : commands[i] = Str("GL_BUFFER_DATA")
    /\ lastClean.ret = "true"

(***************************************************************************)
(* C10.  A clean() that runs to its end returns true exactly if the queue   *)
(* is empty when it returns; it has then sent and removed every element     *)
(* that was queued, so the queue is empty and the result is true.           *)
(***************************************************************************)
C10_TrueIffEmptyAndEmpty ==
    Cleaned =>
        /\ (lastClean.ret = "true") <=> (queue[lastClean.mesh] = <<>>)
        /\ queue[lastClean.mesh] = <<>>
        /\ lastClean.ret = "true"
        /\ Len(lastClean.sent) >= Len(lastClean.queue)
        /\ SubSeq(lastClean.sent, Len(lastClean.sent) - Len(lastClean.queue) + 1,
                  Len(lastClean.sent)) = lastClean.queue

\* a queue with appended tuples was drained
C10_Witness ==
    /\ Cleaned
    /\ Len(lastClean.queue) >= 10
    /\ lastClean.ret = "true"
    /\ queue[lastClean.mesh] = <<>>

(***************************************************************************)
(* C11                                                                      *)
(***************************************************************************)
\* the four elements the claim gives for each geometry, written out
GeometryTupleOf(g) ==
    IF g = "G1"
    THEN <<Str("GL_SET_GEOMETRY"), Num(1), Str("TRIANGLES"), Bool(FALSE)>>
    ELSE <<Str("GL_SET_GEOMETRY"), Num(2), Str("POINTS"), Bool(TRUE)>>

\* C11: setGeometry(g) on a mesh that holds g appends nothing and changes no
\* state; on a mesh that holds another geometry or none it appends exactly the
\* one tuple (GL_SET_GEOMETRY, g.id, g.type, g.dynamic), the mesh then holds g,
\* and nothing else changes.
C11_SetGeometryByReference ==
    [][\A m \in Active, g \in Geometries :
          setGeometry(m, g) =>
             /\ geometry[m] = g => UNCHANGED vars
             /\ geometry[m] # g =>
                   /\ queue'[m] = queue[m] \o GeometryTupleOf(g)
                   /\ geometry'[m] = g
                   /\ UNCHANGED <<size, baseColorField, dirty, invalidations,
                                  commands, notified, returned, lastClean,
                                  compiles, drained>>]_vars

\* G2 assigned to a mesh that held G1: both tuples are queued and G2 is held
C11_Witness ==
    /\ geometry["m1"] = "G2"
    /\ Len(queue["m1"]) >= 8
    /\ SubSeq(queue["m1"], Len(queue["m1"]) - 7, Len(queue["m1"]))
          = GeometryTupleOf("G1") \o GeometryTupleOf("G2")

(***************************************************************************)
(* C12                                                                      *)
(***************************************************************************)
\* a step that appends one material tuple to m's queue
SlotStep(m) ==
    /\ Len(queue'[m]) = Len(queue[m]) + 3
    /\ SubSeq(queue'[m], 1, Len(queue[m])) = queue[m]
    /\ queue'[m][Len(queue[m]) + 2] \in SlotNames
\* the value that step appends
SlotValue(m) == queue'[m][Len(queue[m]) + 3]
\* what the _compile methods of the compilable inputs return
CompiledValues == {Num(7), Obj("compiled")}

\* C12: an assignment of a compilable expression invokes _compile exactly once
\* and queues the compiled result, never the expression itself; an assignment
\* of any other value invokes none; and no other step, clean() included,
\* invokes one.  So the count of invocations is the count of assignments of
\* compilable inputs, however many frames have passed.
C12_CompileOncePerAssignment ==
    [][\A m \in Active :
          /\ SlotStep(m) =>
                /\ SlotValue(m) \notin {Obj("exprToObject"), Obj("exprToNumber")}
                /\ compiles' = compiles
                                 + (IF SlotValue(m) \in CompiledValues THEN 1 ELSE 0)
          /\ ~SlotStep(m) => compiles' = compiles]_vars

\* one compilable assignment was drained in an earlier frame, a second one is
\* pending: two invocations
C12_Witness ==
    /\ compiles = 2
    /\ drained["m1"]
    /\ commands = <<>>
    /\ Len(queue["m1"]) = 3
    /\ queue["m1"][3] \in CompiledValues

(***************************************************************************)
(* C13                                                                      *)
(***************************************************************************)
\* the slot name the step appends
SlotName(m) == queue'[m][Len(queue[m]) + 2]

\* C13: every baseColor assignment marks the mesh dirty with the dispatcher;
\* an assignment to normal, glossiness or metallic leaves the dispatcher's
\* dirty set as it was.
C13_OnlyBaseColorDirties ==
    [][\A m \in Active :
          SlotStep(m) =>
             IF SlotName(m) = Str("baseColor")
             THEN dirty' = dirty \cup {MeshId(m)}
             ELSE dirty' = dirty]_vars

\* a mesh the dispatcher has cleaned, with a normal, glossiness or metallic
\* tuple queued since, is still not dirty
C13_Witness ==
    /\ MeshId("m1") \notin dirty
    /\ Len(queue["m1"]) = 3
    /\ queue["m1"][2] \in {Str("normal"), Str("glossiness"), Str("metallic")}

(***************************************************************************)
(* C14                                                                      *)
(***************************************************************************)
\* the state the claim gives for a mesh on which nothing has been called
AsConstructed(m) ==
    /\ MeshId(m) \in dirty
    /\ \A o \in Meshes \ {m} : MeshId(o) # MeshId(m)
    /\ geometry[m] = NoGeometry
    /\ queue[m] = <<Str("GL_CREATE_MESH"),
                    Str("GL_UNIFORMS"), Str("transform"), ContextTransform.matrix,
                    Str("GL_UNIFORMS"), Str("origin"), ContextOrigin>>

\* C14: a mesh on which nothing has been called since its construction (in
\* this specification, every mesh that is not driven) has an identity of its
\* own, is dirty, holds no geometry, and its queue is exactly GL_CREATE_MESH,
\* then (GL_UNIFORMS, transform, the context's transform), then (GL_UNIFORMS,
\* origin, the context's origin); calls on another mesh do not change that.
C14_AfterConstruction == \A m \in Meshes \ Active : AsConstructed(m)

\* the driven mesh right after its construction, before any call on it
C14_Witness ==
    /\ AsConstructed("m1")
    /\ notified["m1"] = InitCalls
    /\ ~drained["m1"]
    /\ size["m1"] = <<>>
    /\ commands = <<>>

(***************************************************************************)
(* C15                                                                      *)
(***************************************************************************)
\* the frame's clean() calls so far all ran to their end, on meshes that hold
\* one and the same geometry, and the first two of them on different meshes
SharedDrains ==
    /\ Len(returned) >= 2
    /\ returned[1].mesh # returned[2].mesh
    /\ returned[1].geometry # NoGeometry
    /\ \A j \in 1..Len(returned) : returned[j].geometry = returned[1].geometry

\* C15: when two meshes that hold the same geometry are drained in one frame,
\* in either order, the first clean() sends one GL_BUFFER_DATA group for every
\* pending invalidation, right after its own header, and leaves the list
\* empty; the second finds nothing pending and sends none.  The frame's stream
\* holds as many groups as there were invalidations, all under the first
\* header.
C15_SharedGeometryUploadedOnce ==
    SharedDrains =>
        LET n == Len(returned[1].pending)
        IN  /\ SubSeq(commands, 1, 2) = <<Str("WITH"), RenderPath(returned[1].mesh)>>
            /\ \A j \in 1..n : commands[2 + 5 * (j - 1) + 1] = Str("GL_BUFFER_DATA")
            /\ Len(SelectSeq(commands, IsBufferData)) = n
            /\ \A j \in 2..Len(returned) : returned[j].pending = <<>>
            /\ Len(SelectSeq(lastClean.sent, IsBufferData)) = 0
            /\ invalidations[returned[1].geometry] = <<>>

\* m2 drained first with two invalidations pending, then m1, same geometry
C15_Witness ==
    /\ SharedDrains
    /\ returned[1].mesh = "m2"
    /\ returned[2].mesh = "m1"
    /\ Len(returned[1].pending) = 2
    /\ returned[2].ret = "true"

(***************************************************************************)
(* C16                                                                      *)
(***************************************************************************)
\* a step that appends one (GL_UNIFORMS, size, value) tuple to m's queue
SizeStep(m) ==
    /\ Len(queue'[m]) = Len(queue[m]) + 3
    /\ SubSeq(queue'[m], 1, Len(queue[m])) = queue[m]
    /\ queue'[m][Len(queue[m]) + 1] = Str("GL_UNIFORMS")
    /\ queue'[m][Len(queue[m]) + 2] = Str("size")

\* C16: a size notification leaves, as the cached size getSize() returns, the
\* three components it delivered; every other step, clean() included, leaves
\* the cached size as it was.  So after any run with a size notification in it
\* the cached size is that of the most recent one.
C16_SizeOfLastNotification ==
    [][\A m \in Active :
          IF SizeStep(m)
          THEN LET v == queue'[m][Len(queue[m]) + 3]
               IN  getSize(m)' = <<v.n[1], v.n[2], v.n[3]>>
          ELSE getSize(m)' = getSize(m)]_vars

\* two size notifications, (1,2,3) then (4,5,6): the cached size is (4,5,6)
C16_Witness ==
    /\ Len(queue["m1"]) >= 6
    /\ SubSeq(queue["m1"], Len(queue["m1"]) - 5, Len(queue["m1"]))
          = <<Str("GL_UNIFORMS"), Str("size"), Arr(<<1, 2, 3>>),
              Str("GL_UNIFORMS"), Str("size"), Arr(<<4, 5, 6>>)>>
    /\ getSize("m1") = <<4, 5, 6>>

(***************************************************************************)
(* C17                                                                      *)
(***************************************************************************)
\* C17: a baseColor assignment of a value that is not an array caches that
\* value, compiled if it was compilable; a baseColor assignment of an array,
\* an assignment to normal, glossiness or metallic, and every other step leave
\* the cached baseColor as it was.  So the cache holds the most recent
\* non-array baseColor, and is unset while there has been none.
C17_CachedBaseColor ==
    [][\A m \in Active :
          IF SlotStep(m) /\ SlotName(m) = Str("baseColor")
                         /\ SlotValue(m).tag # "array"
          THEN /\ baseColorField'[m] = SlotValue(m)
               /\ SlotValue(m) \notin {Obj("exprToObject"), Obj("exprToNumber")}
          ELSE baseColorField'[m] = baseColorField[m]]_vars

\* a compiled baseColor, then an array baseColor: the compiled one is cached
C17_Witness ==
    /\ Len(queue["m1"]) >= 6
    /\ SubSeq(queue["m1"], Len(queue["m1"]) - 5, Len(queue["m1"]))
          = <<Str("MATERIAL_INPUT"), Str("baseColor"), Num(7),
              Str("GL_UNIFORMS"), Str("baseColor"), Arr(<<1, 0, 0>>)>>
    /\ baseColorField["m1"] = Num(7)

(***************************************************************************)
(* C18                                                                      *)
(***************************************************************************)
\* C18: in every reachable state a mesh whose queue is not empty is marked
\* dirty with the dispatcher, which clears the mark only when clean() has
\* returned true.
C18_NonEmptyQueueIsDirty ==
    \A m \in Active : queue[m] # <<>> => MeshId(m) \in dirty

(***************************************************************************)
(* C19                                                                      *)
(***************************************************************************)
\* t is a complete tuple: an opcode, followed by as many operands as the
\* opcode takes, a name first where it takes a name
CompleteTuple(t) ==
    /\ IsOpcode(t[1])
    /\ \A k \in 2..Len(t) : ~IsOpcode(t[k])
    /\ \/ t[1] = Str("GL_CREATE_MESH") /\ Len(t) = 1
       \/ /\ t[1] \in {Str("GL_UNIFORMS"), Str("MATERIAL_INPUT"), Str("UNIFORM_INPUT")}
          /\ Len(t) = 3
          /\ t[2].tag = "string"
       \/ t[1] = Str("GL_SET_GEOMETRY") /\ Len(t) = 4

\* q reads back, opcode by opcode, into complete tuples
CompleteTuples(q) ==
    LET ts == Tuples(q) IN \A i \in 1..Len(ts) : CompleteTuple(ts[i])

\* C19: in every reachable state the queue of a mesh is a concatenation of
\* complete tuples (GL_CREATE_MESH alone; GL_UNIFORMS, MATERIAL_INPUT or
\* UNIFORM_INPUT with a name and a value; GL_SET_GEOMETRY with id, type and
\* dynamic flag), and what a clean() that ran to its end has sent after the
\* header and the five-element GL_BUFFER_DATA groups is one too.
C19_CompleteTuples ==
    /\ \A m \in Meshes : CompleteTuples(queue[m])
    /\ Cleaned => CompleteTuples(AfterUploads(Len(lastClean.popped)))

\* a clean() that sent an upload and then five tuples of three arities
C19_Witness ==
    /\ Cleaned
    /\ Len(lastClean.popped) >= 1
    /\ LET ts == Tuples(AfterUploads(Len(lastClean.popped)))
       IN  /\ Len(ts) = 5
           /\ \E i \in 1..5 : Len(ts[i]) = 4
           /\ \E i \in 1..5 : ts[i][1] = Str("UNIFORM_INPUT")
           /\ Len(ts[1]) = 1
    /\ queue[lastClean.mesh] = <<>>

(***************************************************************************)
(* C20                                                                      *)
(***************************************************************************)
IsCreateMesh(v) == v = Str("GL_CREATE_MESH")

\* C20: GL_CREATE_MESH is sent exactly once in the life of a mesh, by the first
\* clean() that runs to its end, and before every other element of the queue
\* that is ever sent.  Until that clean() the queue holds GL_CREATE_MESH once,
\* at its head; after it, never again.  A clean() that runs to its end sends
\* GL_CREATE_MESH once, as the first element after the header and the
\* GL_BUFFER_DATA groups, if it is the first such clean() of the mesh, and not
\* at all otherwise.
C20_CreateMeshOnceAndFirst ==
    /\ \A m \in Meshes :
          IF drained[m]
          THEN Len(SelectSeq(queue[m], IsCreateMesh)) = 0
          ELSE /\ Len(SelectSeq(queue[m], IsCreateMesh)) = 1
               /\ Head(queue[m]) = Str("GL_CREATE_MESH")
    /\ Cleaned =>
          LET rest == AfterUploads(Len(lastClean.popped))
          IN  IF lastClean.first
              THEN /\ Len(SelectSeq(lastClean.sent, IsCreateMesh)) = 1
                   /\ rest[1] = Str("GL_CREATE_MESH")
              ELSE Len(SelectSeq(lastClean.sent, IsCreateMesh)) = 0

\* a later clean() of a mesh that has been drained before: it sends a tuple
\* from the queue and no GL_CREATE_MESH
C20_Witness ==
    /\ Cleaned
    /\ ~lastClean.first
    /\ lastClean.ret = "true"
    /\ Len(lastClean.queue) >= 3
    /\ Len(SelectSeq(lastClean.sent, IsCreateMesh)) = 0

=============================================================================
